---- MODULE Spec2Model ----
(***************************************************************************)
(* A model of makedds: the image-composition pipeline and DDS container    *)
(* writer of src/src/main.cpp, with the DDS helpers of                     *)
(* src/src/lldatain.cpp it calls.                                          *)
(*                                                                         *)
(* The state is the state of one run of main(): the command line, the      *)
(* parsed manifest, dds_params_t, the preloaded image0, the loop counters  *)
(* of the write_*_image functions, the output stream and the exit code.    *)
(* The raster decoder (stb_image), the allocator behind the resampler and  *)
(* fopen/fseek are the environment: their outcomes are chosen with \E.     *)
(***************************************************************************)
EXTENDS Integers, Sequences, FiniteSets, TLC

(***************************************************************************)
(* Bounds of the model.                                                    *)
(***************************************************************************)
\* The number of environment faults (a source that does not decode, a failed
\* allocation in resize_image, a failed fopen or fseek) one run may meet.
MaxFaults == 1
\* The widths dds_pitch is called on when it is called on its own.
MaxWidth == 9
\* The bits of a size_t when pow2_ge is called on its own.
WordBits == 4

(***************************************************************************)
(* Program constants.                                                      *)
(***************************************************************************)
DXGI_FORMAT_UNKNOWN            == 0
DXGI_FORMAT_R32G32B32A32_FLOAT == 2
DXGI_FORMAT_R32G32B32_FLOAT    == 6
DXGI_FORMAT_R32G32_FLOAT       == 16
DXGI_FORMAT_R8G8B8A8_UNORM     == 28
DXGI_FORMAT_R32_FLOAT          == 41
DXGI_FORMAT_R8G8_UNORM         == 49
DXGI_FORMAT_R8_UNORM           == 61
DXGI_FORMAT_R8G8_B8G8_UNORM    == 68
DXGI_FORMAT_G8R8_G8B8_UNORM    == 69
DXGI_FORMAT_BC1_UNORM          == 71
DXGI_FORMAT_B4G4R4A4_UNORM     == 115
DXGI_FORMAT_B8G8R8A8_UNORM     == 87

DDS_ALPHA_MODE_UNKNOWN       == 0
DDS_ALPHA_MODE_STRAIGHT      == 1
DDS_ALPHA_MODE_PREMULTIPLIED == 2
DDS_ALPHA_MODE_OPAQUE        == 3
DDS_ALPHA_MODE_CUSTOM        == 4

DDPF_NONE        == 0
DDPF_ALPHAPIXELS == 1
DDPF_ALPHA       == 2
DDPF_FOURCC      == 4
DDPF_RGB         == 64
DDPF_LUMINANCE   == 131072

DDSD_CAPS        == 1
DDSD_HEIGHT      == 2
DDSD_WIDTH       == 4
DDSD_PITCH       == 8
DDSD_PIXELFORMAT == 4096
DDSD_MIPMAPCOUNT == 131072
DDSD_LINEARSIZE  == 524288
DDSD_DEPTH       == 8388608

DDSCAPS_COMPLEX  == 8
DDSCAPS_TEXTURE  == 4096
DDSCAPS_MIPMAP   == 4194304

DDSCAPS2_NONE        == 0
DDS_CUBEMAP_ALLFACES == 65024
DDSCAPS2_VOLUME      == 2097152
DDSCAPS3_NONE        == 0
DDSCAPS4_NONE        == 0

D3D11_RESOURCE_DIMENSION_TEXTURE1D == 2
D3D11_RESOURCE_DIMENSION_TEXTURE2D == 3
D3D11_RESOURCE_DIMENSION_TEXTURE3D == 4
D3D11_RESOURCE_MISC_TEXTURECUBE    == 4

\* 'D','D','S',' ' packed little-endian (0x20534444).
LLDATAIN_DDS_MAGIC_LE == 542327876
\* sizeof(uint32_t), sizeof(dds_header_t), sizeof(dds_pixelformat_t) and
\* sizeof(dds_header_dxt10_t): the structures are packed arrays of uint32_t.
SizeofUint32      == 4
SizeofDdsHeader   == 124
SizeofPixelFormat == 32
SizeofDxt10       == 20
\* The faces write_cubemap_image loads per call.
CubeFaces == 6

(***************************************************************************)
(* Bit operations on uint32_t flag words.                                  *)
(***************************************************************************)
RECURSIVE BitOr(_, _)
BitOr(a, b) ==
    IF a = 0 THEN b
    ELSE IF b = 0 THEN a
    ELSE (IF a % 2 = 1 \/ b % 2 = 1 THEN 1 ELSE 0) + 2 * BitOr(a \div 2, b \div 2)

RECURSIVE BitAnd(_, _)
BitAnd(a, b) ==
    IF a = 0 \/ b = 0 THEN 0
    ELSE (IF a % 2 = 1 /\ b % 2 = 1 THEN 1 ELSE 0) + 2 * BitAnd(a \div 2, b \div 2)

\* fourcc_le(a, b, c, d) on the character codes.
fourcc_le(a, b, c, d) == d * 16777216 + c * 65536 + b * 256 + a

\* 'D' = 68, 'X' = 88, '1' = 49, '0' = 48, 'S' = 83, ' ' = 32.
FourCC_DX10 == fourcc_le(68, 88, 49, 48)
FourCC_DDS  == fourcc_le(68, 68, 83, 32)

max2(a, b) == IF a < b THEN b ELSE a

(***************************************************************************)
(* Format tables (lldatain.cpp).                                           *)
(***************************************************************************)
dds_block_compressed(format) ==
    format \in {70, 71, 72, 73, 74, 75, 76, 77, 78, 79, 80, 81, 82, 83, 84,
                94, 95, 96, 97, 98, 99}

dds_packed(format) ==
    format = DXGI_FORMAT_R8G8_B8G8_UNORM \/ format = DXGI_FORMAT_G8R8_G8B8_UNORM

dds_bits_per_pixel(format) ==
    CASE format \in {1, 2, 3, 4} -> 128
      [] format \in {5, 6, 7, 8} -> 96
      [] format \in 9..22 -> 64
      [] format \in (23..47) \cup {67, 68, 69} \cup (87..93) -> 32
      [] format \in (48..59) \cup {85, 86, 115} -> 16
      [] format \in 60..65 -> 8
      [] format = 66 -> 1
      [] format \in {70, 71, 72, 79, 80, 81} -> 4
      [] format \in {73, 74, 75, 76, 77, 78, 82, 83, 84, 94, 95, 96, 97, 98, 99} -> 8
      [] OTHER -> 0

dds_bytes_per_block(format) ==
    CASE format \in {70, 71, 72, 79, 80, 81} -> 8
      [] format \in {73, 74, 75, 76, 77, 78, 82, 83, 84, 94, 95, 96, 97, 98, 99} -> 16
      [] OTHER -> 0

\* A pitch whose byte count drops the bits of a last, partly filled byte.
dds_pitch_rounding_down(format, width) ==
    IF dds_block_compressed(format)
    THEN max2(1, (width + 3) \div 4) * dds_bytes_per_block(format)
    ELSE IF dds_packed(format)
    THEN ((width + 1) \div 2) * 4
    ELSE (width * dds_bits_per_pixel(format)) \div 8

dds_pitch(format, width) ==
    IF dds_block_compressed(format)
    THEN max2(1, (width + 3) \div 4) * dds_bytes_per_block(format)
    ELSE IF dds_packed(format)
    THEN ((width + 1) \div 2) * 4
    ELSE (width * dds_bits_per_pixel(format) + 7) \div 8

level_dimension(dimension, level_index) ==
    LET l_dimension == dimension \div (2 ^ level_index)
    IN  IF l_dimension = 0 THEN 1 ELSE l_dimension

(***************************************************************************)
(* Images (image_info_t) and the raster decoder.                           *)
(***************************************************************************)
\* What stb_image reports for one source file: whether pixels came back, the
\* width, height and channel count of the file, and whether the file is HDR.
DecFail == [ok |-> FALSE, w |-> 0, h |-> 0, n |-> 0, hdr |-> FALSE]

DecoderImages ==
    { [ok |-> TRUE, w |-> 1, h |-> 1, n |-> 4, hdr |-> FALSE],
      [ok |-> TRUE, w |-> 4, h |-> 4, n |-> 3, hdr |-> FALSE],
      [ok |-> TRUE, w |-> 1, h |-> 5, n |-> 1, hdr |-> FALSE],
      [ok |-> TRUE, w |-> 2, h |-> 1, n |-> 3, hdr |-> TRUE] }

DecoderOutcomes == DecoderImages \cup {DecFail}

NullImage ==
    [Pixels |-> FALSE, Width |-> 0, Height |-> 0, Channels |-> 0,
     Format |-> DXGI_FORMAT_UNKNOWN, HDR |-> FALSE]

\* load_image: the result and the image_info_t it leaves behind.
load_image(dec) ==
    IF dec.hdr
    THEN IF dec.ok /\ dec.n \in 1..4
         THEN [ok |-> TRUE,
               image |-> [Pixels |-> TRUE, Width |-> dec.w, Height |-> dec.h,
                          Channels |-> dec.n,
                          Format |-> CASE dec.n = 1 -> DXGI_FORMAT_R32_FLOAT
                                       [] dec.n = 2 -> DXGI_FORMAT_R32G32_FLOAT
                                       [] dec.n = 3 -> DXGI_FORMAT_R32G32B32_FLOAT
                                       [] dec.n = 4 -> DXGI_FORMAT_R32G32B32A32_FLOAT,
                          HDR |-> TRUE]]
         ELSE [ok |-> FALSE, image |-> NullImage]
    ELSE LET n == IF dec.n = 3 THEN 4 ELSE dec.n   \* 24-bpp is re-loaded as 32-bpp
         IN  IF dec.ok /\ n \in {1, 2, 4}
             THEN [ok |-> TRUE,
                   image |-> [Pixels |-> TRUE, Width |-> dec.w, Height |-> dec.h,
                              Channels |-> n,
                              Format |-> CASE n = 1 -> DXGI_FORMAT_R8_UNORM
                                           [] n = 2 -> DXGI_FORMAT_R8G8_UNORM
                                           [] n = 4 -> DXGI_FORMAT_R8G8B8A8_UNORM,
                              HDR |-> FALSE]]
             ELSE [ok |-> FALSE, image |-> NullImage]

\* resize_image: alloc is whether malloc returned a buffer.
resize_image(input, new_width, new_height, alloc) ==
    IF ~alloc
    THEN [ok |-> FALSE, image |-> NullImage]
    ELSE [ok |-> TRUE,
          image |-> [Pixels |-> TRUE, Width |-> new_width, Height |-> new_height,
                     Channels |-> input.Channels, Format |-> input.Format,
                     HDR |-> input.HDR]]

\* free_image.
free_image(image) ==
    [image EXCEPT !.Pixels = FALSE, !.Width = 0, !.Height = 0, !.Channels = 0]

(***************************************************************************)
(* dds_params_t and the manifest parser.                                   *)
(***************************************************************************)
init_params ==
    [Width |-> 0, Height |-> 0, BaseWidth |-> 0, BaseHeight |-> 0,
     MaxMipLevels |-> 1, ArraySize |-> 1,
     Format |-> DXGI_FORMAT_UNKNOWN, AlphaMode |-> DDS_ALPHA_MODE_UNKNOWN,
     Mipmaps |-> FALSE, Cubemap |-> FALSE, Volume |-> FALSE, ForcePow2 |-> FALSE,
     SourceCount |-> 0, SourceIndex |-> 0]

\* A node of the JSON document: its value type, and its value (an integer, a
\* boolean, the enumerator a string matches or -1 when it matches none, the
\* number of strings of an array).
Node(t, v, b) == [t |-> t, v |-> v, b |-> b]
AbsentNode  == Node("absent", 0, FALSE)
NullNode    == Node("null", 0, FALSE)
IntNode(v)  == Node("integer", v, FALSE)
BoolNode(b) == Node("boolean", 0, b)
StrNode(v)  == Node("string", v, FALSE)
ArrNode(n)  == Node("array", n, FALSE)

\* The fields of the top-level object, in document order.
Keys == << "Width", "Height", "MaxMipLevels", "ArraySize", "Format", "AlphaMode",
           "Mipmaps", "Cubemap", "Volume", "ForcePow2", "SourceFiles" >>

\* process_json_node on one field of the top-level object.
process_json_node(key, node, params) ==
    CASE node.t = "array" ->
           [ok |-> TRUE,
            params |-> IF key = "SourceFiles"
                       THEN [params EXCEPT !.SourceCount = node.v]
                       ELSE params]
      [] node.t = "string" ->
           IF key \notin {"Format", "AlphaMode"} \/ node.v < 0
           THEN [ok |-> FALSE, params |-> params]
           ELSE [ok |-> TRUE,
                 params |-> IF key = "Format"
                            THEN [params EXCEPT !.Format = node.v]
                            ELSE [params EXCEPT !.AlphaMode = node.v]]
      [] node.t = "integer" ->
           [ok |-> TRUE,
            params |-> CASE key = "Width"        -> [params EXCEPT !.Width = node.v]
                         [] key = "Height"       -> [params EXCEPT !.Height = node.v]
                         [] key = "MaxMipLevels" -> [params EXCEPT !.MaxMipLevels = node.v]
                         [] key = "ArraySize"    -> [params EXCEPT !.ArraySize = node.v]
                         [] OTHER                -> params]
      [] node.t = "boolean" ->
           [ok |-> TRUE,
            params |-> CASE key = "Cubemap"   -> [params EXCEPT !.Cubemap = node.b]
                         [] key = "Mipmaps"   -> [params EXCEPT !.Mipmaps = node.b]
                         [] key = "Volume"    -> [params EXCEPT !.Volume = node.b]
                         [] key = "ForcePow2" -> [params EXCEPT !.ForcePow2 = node.b]
                         [] OTHER             -> params]
      [] node.t = "null" ->
           IF key = "SourceFiles"
           THEN [ok |-> FALSE, params |-> params]
           ELSE [ok |-> TRUE,
                 params |-> CASE key = "Cubemap"      -> [params EXCEPT !.Cubemap = FALSE]
                              [] key = "Mipmaps"      -> [params EXCEPT !.Mipmaps = FALSE]
                              [] key = "Volume"       -> [params EXCEPT !.Volume = FALSE]
                              [] key = "ForcePow2"    -> [params EXCEPT !.ForcePow2 = FALSE]
                              [] key = "Width"        -> [params EXCEPT !.Width = 0]
                              [] key = "Height"       -> [params EXCEPT !.Height = 0]
                              [] key = "Format"       -> [params EXCEPT !.Format = DXGI_FORMAT_B8G8R8A8_UNORM]
                              [] key = "AlphaMode"    -> [params EXCEPT !.AlphaMode = DDS_ALPHA_MODE_PREMULTIPLIED]
                              [] key = "MaxMipLevels" -> [params EXCEPT !.MaxMipLevels = 1]
                              [] key = "ArraySize"    -> [params EXCEPT !.ArraySize = 1]
                              [] OTHER                -> params]
      [] OTHER -> [ok |-> TRUE, params |-> params]   \* the field is not in the document

\* process_json_node on the top-level object: its fields in order, stopping
\* at the first one that is rejected.
RECURSIVE process_json_object(_, _, _)
process_json_object(doc, k, params) ==
    IF k > Len(Keys)
    THEN [ok |-> TRUE, params |-> params]
    ELSE LET r == process_json_node(Keys[k], doc[Keys[k]], params)
         IN  IF r.ok THEN process_json_object(doc, k + 1, r.params) ELSE r

\* A validation that leaves the ArraySize of a volume as the manifest gave it.
validate_params_keeping_array_size(p0) ==
    LET p3 == IF ~p0.Volume /\ ~p0.Cubemap /\ p0.ArraySize <= 1
              THEN [p0 EXCEPT !.ArraySize = p0.SourceCount] ELSE p0
        p4 == IF p3.Volume /\ p3.Mipmaps
              THEN [p3 EXCEPT !.Mipmaps = FALSE, !.MaxMipLevels = 1] ELSE p3
    IN  [ok |-> TRUE, params |-> p4]

\* The parameter validation of params_from_json, after the document is read.
\* ok is FALSE when the source count of a cubemap is no multiple of six.
validate_params(p0) ==
    LET p1 == IF p0.Cubemap /\ p0.SourceCount > CubeFaces
              THEN [p0 EXCEPT !.ArraySize = p0.SourceCount \div CubeFaces] ELSE p0
        p2 == IF p1.Volume THEN [p1 EXCEPT !.ArraySize = 1] ELSE p1
        p3 == IF ~p2.Volume /\ ~p2.Cubemap /\ p2.ArraySize <= 1
              THEN [p2 EXCEPT !.ArraySize = p2.SourceCount] ELSE p2
        p4 == IF p3.Volume /\ p3.Mipmaps
              THEN [p3 EXCEPT !.Mipmaps = FALSE, !.MaxMipLevels = 1] ELSE p3
    IN  IF p0.Cubemap /\ (p0.SourceCount % CubeFaces) # 0
        THEN [ok |-> FALSE, params |-> p0]
        ELSE [ok |-> TRUE, params |-> p4]

\* The 'default to source' assignments params_from_json makes when it loads
\* the only source itself.
json_single_defaults(p, image) ==
    [p EXCEPT !.Width       = IF p.Width = 0 THEN image.Width ELSE p.Width,
              !.Height      = IF p.Height = 0 THEN image.Height ELSE p.Height,
              !.BaseWidth   = image.Width,
              !.BaseHeight  = image.Height,
              !.SourceIndex = 1,
              !.Format      = IF p.Format = DXGI_FORMAT_UNKNOWN THEN image.Format ELSE p.Format]

\* The parameters params_from_path derives from a bare image file.
path_image_params(image) ==
    [Width |-> image.Width, Height |-> image.Height,
     BaseWidth |-> image.Width, BaseHeight |-> image.Height,
     MaxMipLevels |-> 1, ArraySize |-> 1,
     Format |-> image.Format,
     AlphaMode |-> IF image.Channels = 4 THEN DDS_ALPHA_MODE_PREMULTIPLIED
                   ELSE DDS_ALPHA_MODE_OPAQUE,
     Mipmaps |-> FALSE, Cubemap |-> FALSE, Volume |-> FALSE, ForcePow2 |-> FALSE,
     SourceCount |-> 1, SourceIndex |-> 1]

\* pow2_ge: the loop 'while (x < value) x <<= 1' started at x = min.
RECURSIVE pow2_ge(_, _)
pow2_ge(value, min) == IF min < value THEN pow2_ge(value, min * 2) ELSE min

\* pow2_ge on a size_t of WordBits bits: whether the loop ends, and x when
\* it does. 'x <<= 1' drops the bit shifted out of the word; once x is 0 it
\* stays 0 < value and the loop never ends.
RECURSIVE pow2_ge_word(_, _)
pow2_ge_word(value, x) ==
    IF ~(x < value)
    THEN [returns |-> TRUE, x |-> x]
    ELSE LET shifted == (x * 2) % (2 ^ WordBits)
         IN  IF shifted = x
             THEN [returns |-> FALSE, x |-> x]
             ELSE pow2_ge_word(value, shifted)

\* The loop that counts the levels of a full chain: 'compute all the way down
\* to 1x1', started with MaxMipLevels = n, including the final increment.
RECURSIVE count_mip_levels(_, _, _)
count_mip_levels(lw, lh, n) ==
    IF lw > 1 \/ lh > 1
    THEN count_mip_levels(IF lw \div 2 = 0 THEN 1 ELSE lw \div 2,
                          IF lh \div 2 = 0 THEN 1 ELSE lh \div 2, n + 1)
    ELSE n + 1

\* modify_params up to its test of MaxMipLevels: mipmap and pow2 say whether
\* --mipmap and --pow2 are in argv.
modify_requested(mipmap, pow2, p0) ==
    LET p1 == IF mipmap THEN [p0 EXCEPT !.Mipmaps = TRUE, !.MaxMipLevels = 0] ELSE p0
        p2 == IF pow2 THEN [p1 EXCEPT !.ForcePow2 = TRUE] ELSE p1
    IN  IF p2.ForcePow2 /\ p2.Width # 0 /\ p2.Height # 0
        THEN [p2 EXCEPT !.Width = pow2_ge(p2.Width, 1),
                        !.Height = pow2_ge(p2.Height, 1)]
        ELSE p2

\* modify_params.
modify_params(mipmap, pow2, p0) ==
    LET p3 == modify_requested(mipmap, pow2, p0)
    IN  IF p3.MaxMipLevels = 0
        THEN [p3 EXCEPT !.MaxMipLevels = count_mip_levels(p3.Width, p3.Height, 0)]
        ELSE p3

(***************************************************************************)
(* The surface writer.                                                     *)
(***************************************************************************)
\* The resize_image calls one write_image_chain makes when none fails.
NumResizeCalls(params) ==
    (IF params.Width # params.BaseWidth \/ params.Height # params.BaseHeight
     THEN 1 ELSE 0)
    + (IF params.Mipmaps /\ params.MaxMipLevels > 1 THEN params.MaxMipLevels - 1 ELSE 0)

\* One fwrite of a surface: level lw x lh of pitch * lh bytes.
SurfaceWrite(params, level, lw, lh) ==
    [level |-> level, lw |-> lw, lh |-> lh, nb |-> dds_pitch(params.Format, lw) * lh]

\* The loop of write_image_chain over the levels i .. MaxMipLevels-1. call is
\* the number of the next resize_image call, failAt the call whose allocation
\* fails (0: none).
RECURSIVE write_mip_levels(_, _, _, _)
write_mip_levels(params, i, call, failAt) ==
    IF i >= params.MaxMipLevels
    THEN [ok |-> TRUE, writes |-> << >>]
    ELSE LET lw0 == params.Width \div (2 ^ i)
             lh0 == params.Height \div (2 ^ i)
             lw  == IF lw0 < 1 THEN 1 ELSE lw0
             lh  == IF lh0 < 1 THEN 1 ELSE lh0
         IN  IF call = failAt
             THEN [ok |-> FALSE, writes |-> << >>]
             ELSE LET rest == write_mip_levels(params, i + 1, call + 1, failAt)
                  IN  [ok |-> rest.ok,
                       writes |-> << SurfaceWrite(params, i, lw, lh) >> \o rest.writes]

\* write_image_chain: its result and the surfaces it writes, in order.
write_image_chain(params, base_level, failAt) ==
    IF ~base_level.Pixels
    THEN [ok |-> FALSE, writes |-> << >>]
    ELSE LET resample == params.Width # params.BaseWidth
                         \/ params.Height # params.BaseHeight
             next     == IF resample THEN 2 ELSE 1
         IN  IF resample /\ failAt = 1
             THEN [ok |-> FALSE, writes |-> << >>]
             ELSE LET base == << SurfaceWrite(params, 0, params.Width, params.Height) >>
                      mips == IF params.Mipmaps /\ params.MaxMipLevels > 1
                              THEN write_mip_levels(params, 1, next, failAt)
                              ELSE [ok |-> TRUE, writes |-> << >>]
                  IN  [ok |-> mips.ok, writes |-> base \o mips.writes]

(***************************************************************************)
(* The pixel buffers on the heap: those stbi_load returned (dec) and those *)
(* resize_image allocated (res) that are not yet freed, the most of each   *)
(* that were live at one time, the most that were live when a call of      *)
(* load_image began.                                                       *)
(***************************************************************************)
NoBuffers ==
    [dec |-> 0, res |-> 0, peakDec |-> 0, peakRes |-> 0, peakAll |-> 0, atLoad |-> 0]

HeapPeaks(h) ==
    [h EXCEPT !.peakDec = max2(@, h.dec), !.peakRes = max2(@, h.res),
              !.peakAll = max2(@, h.dec + h.res)]

\* load_image: stbi_load or stbi_loadf returns a buffer when ok.
heap_load(h, ok) ==
    HeapPeaks([h EXCEPT !.atLoad = max2(@, h.dec + h.res),
                        !.dec = IF ok THEN @ + 1 ELSE @])

\* resize_image: malloc returns a buffer when alloc.
heap_resize(h, alloc) == HeapPeaks([h EXCEPT !.res = IF alloc THEN @ + 1 ELSE @])

\* free_image on a decoded image, and on the output of resize_image.
heap_free_decoded(h) == [h EXCEPT !.dec = @ - 1]
heap_free_resampled(h) == [h EXCEPT !.res = @ - 1]

\* free_image on the level-0 image of a caller of write_image_chain: the
\* decoded image, or the resized image that took its place.
heap_free_image(h) ==
    IF h.dec > 0 THEN heap_free_decoded(h)
    ELSE IF h.res > 0 THEN heap_free_resampled(h) ELSE h

\* The heap after a write_image_chain that does not free base_level once
\* the resize of level 0 has produced out.
write_image_chain_heap_keeping_decoded(h, params, failAt) ==
    LET resample == params.Width # params.BaseWidth
                    \/ params.Height # params.BaseHeight
        next     == IF resample THEN 2 ELSE 1
        h1       == IF resample /\ failAt # 1 THEN heap_resize(h, TRUE) ELSE h
    IN  IF params.Mipmaps /\ params.MaxMipLevels > 1
           /\ ~(resample /\ failAt = 1) /\ failAt # next
        THEN heap_free_resampled(heap_resize(h1, TRUE))
        ELSE h1

\* The heap after write_image_chain: the resize of level 0 allocates out and
\* frees base_level; each mip level is allocated, written and freed while
\* level 0 is live.
write_image_chain_heap(h, params, failAt) ==
    LET resample == params.Width # params.BaseWidth
                    \/ params.Height # params.BaseHeight
        next     == IF resample THEN 2 ELSE 1
        h1       == IF resample /\ failAt # 1
                    THEN heap_free_decoded(heap_resize(h, TRUE)) ELSE h
    IN  IF params.Mipmaps /\ params.MaxMipLevels > 1
           /\ ~(resample /\ failAt = 1) /\ failAt # next
        THEN heap_free_resampled(heap_resize(h1, TRUE))
        ELSE h1

\* The bytes of the pixel buffer of an image.
ImageBytes(image) ==
    image.Width * image.Height * image.Channels * (IF image.HDR THEN 4 ELSE 1)

\* A defaulter whose loop counts the levels of the chain on top of whatever
\* MaxMipLevels holds, without the test for 0.
array_defaults_counting_on(p, image) ==
    LET p1 == [p EXCEPT
                 !.Width      = IF p.Width = 0 THEN image.Width ELSE p.Width,
                 !.Height     = IF p.Height = 0 THEN image.Height ELSE p.Height,
                 !.BaseWidth  = image.Width,
                 !.BaseHeight = image.Height,
                 !.Format     = IF p.Format = DXGI_FORMAT_UNKNOWN THEN image.Format
                                ELSE p.Format,
                 !.AlphaMode  = IF p.AlphaMode = DDS_ALPHA_MODE_UNKNOWN
                                THEN (IF image.Channels = 4
                                      THEN DDS_ALPHA_MODE_PREMULTIPLIED
                                      ELSE DDS_ALPHA_MODE_OPAQUE)
                                ELSE p.AlphaMode]
    IN  [p1 EXCEPT !.MaxMipLevels = count_mip_levels(p1.Width, p1.Height, p1.MaxMipLevels)]

\* The 'default to source' assignments write_array_image and
\* write_cubemap_image make from the first image they load.
array_defaults(p, image) ==
    LET p1 == [p EXCEPT
                 !.Width      = IF p.Width = 0 THEN image.Width ELSE p.Width,
                 !.Height     = IF p.Height = 0 THEN image.Height ELSE p.Height,
                 !.BaseWidth  = image.Width,
                 !.BaseHeight = image.Height,
                 !.Format     = IF p.Format = DXGI_FORMAT_UNKNOWN THEN image.Format
                                ELSE p.Format,
                 !.AlphaMode  = IF p.AlphaMode = DDS_ALPHA_MODE_UNKNOWN
                                THEN (IF image.Channels = 4
                                      THEN DDS_ALPHA_MODE_PREMULTIPLIED
                                      ELSE DDS_ALPHA_MODE_OPAQUE)
                                ELSE p.AlphaMode]
    IN  IF p1.MaxMipLevels = 0
        THEN [p1 EXCEPT !.MaxMipLevels = count_mip_levels(p1.Width, p1.Height, 0)]
        ELSE p1

\* The 'default to source' assignments write_volume_image makes from the
\* first slice.
volume_defaults(p, slice) ==
    LET p1 == [p EXCEPT
                 !.Width      = IF p.Width = 0 THEN slice.Width ELSE p.Width,
                 !.Height     = IF p.Height = 0 THEN slice.Height ELSE p.Height,
                 !.BaseWidth  = slice.Width,
                 !.BaseHeight = slice.Height,
                 !.Format     = IF p.Format = DXGI_FORMAT_UNKNOWN THEN slice.Format
                                ELSE p.Format,
                 !.AlphaMode  = IF p.AlphaMode = DDS_ALPHA_MODE_UNKNOWN
                                THEN (IF slice.Channels = 4
                                      THEN DDS_ALPHA_MODE_PREMULTIPLIED
                                      ELSE DDS_ALPHA_MODE_OPAQUE)
                                ELSE p.AlphaMode]
    IN  IF p1.ForcePow2
        THEN [p1 EXCEPT !.Width = pow2_ge(p1.Width, 1), !.Height = pow2_ge(p1.Height, 1)]
        ELSE p1

(***************************************************************************)
(* The header synthesizer.                                                 *)
(***************************************************************************)
\* init_dds_pixelformat. The four bit masks are left out of the record: no
\* property below reads them.
init_dds_pixelformat(params) ==
    LET f == params.Format
        legacy ==
          CASE f \in {23, 24, 25, 89} \cup (27..32) \cup {87, 90, 91} \cup {67}
                 -> [Flags |-> BitOr(DDPF_RGB, DDPF_ALPHAPIXELS), RGBBitCount |-> 32]
            [] f \in {33} \cup {39, 42, 43} \cup {46} \cup {68} \cup {69} \cup {88, 92, 93}
                 -> [Flags |-> DDPF_RGB, RGBBitCount |-> 32]
            [] f = 44
                 -> [Flags |-> BitOr(DDPF_LUMINANCE, DDPF_ALPHAPIXELS), RGBBitCount |-> 32]
            [] f \in (48..52) \cup {114}
                 -> [Flags |-> BitOr(DDPF_LUMINANCE, DDPF_ALPHAPIXELS), RGBBitCount |-> 16]
            [] f \in {53, 56, 57, 58, 59}
                 -> [Flags |-> DDPF_LUMINANCE, RGBBitCount |-> 16]
            [] f \in (60..65) \cup {113}
                 -> [Flags |-> DDPF_LUMINANCE, RGBBitCount |-> 8]
            [] f = 47
                 -> [Flags |-> DDPF_ALPHA, RGBBitCount |-> 32]
            [] f = 66
                 -> [Flags |-> DDPF_ALPHA, RGBBitCount |-> 1]
            [] f = 85
                 -> [Flags |-> DDPF_RGB, RGBBitCount |-> 16]
            [] f \in {86, 115}
                 -> [Flags |-> BitOr(DDPF_RGB, DDPF_ALPHAPIXELS), RGBBitCount |-> 16]
            [] OTHER
                 -> [Flags |-> DDPF_NONE, RGBBitCount |-> 0]
    IN  [Size |-> SizeofPixelFormat, Flags |-> legacy.Flags, FourCC |-> FourCC_DX10,
         RGBBitCount |-> legacy.RGBBitCount]

\* init_dds_header. It assigns every field of the structure but Reserved1,
\* which keeps what the stack held: reserved1 is that content.
init_dds_header(params, reserved1) ==
    LET flags0 == DDSD_CAPS + DDSD_HEIGHT + DDSD_WIDTH + DDSD_PIXELFORMAT
                  + DDSD_MIPMAPCOUNT
        flags1 == IF params.Volume THEN BitOr(flags0, DDSD_DEPTH) ELSE flags0
        flags  == IF dds_block_compressed(params.Format)
                  THEN BitOr(flags1, DDSD_LINEARSIZE) ELSE BitOr(flags1, DDSD_PITCH)
        caps0  == DDSCAPS_TEXTURE
        caps1  == IF params.Mipmaps
                  THEN BitOr(caps0, BitOr(DDSCAPS_COMPLEX, DDSCAPS_MIPMAP)) ELSE caps0
        caps   == IF params.Cubemap THEN BitOr(caps1, DDSCAPS_COMPLEX) ELSE caps1
        caps2a == IF params.Cubemap
                  THEN BitOr(DDSCAPS2_NONE, DDS_CUBEMAP_ALLFACES) ELSE DDSCAPS2_NONE
        caps2  == IF params.Volume THEN BitOr(caps2a, DDSCAPS2_VOLUME) ELSE caps2a
    IN  [Size |-> SizeofDdsHeader, Flags |-> flags,
         Height |-> params.Height, Width |-> params.Width,
         Pitch |-> dds_pitch(params.Format, params.Width),
         Depth |-> params.SourceCount, Levels |-> params.MaxMipLevels,
         Reserved1 |-> reserved1,
         Format |-> init_dds_pixelformat(params),
         Caps |-> caps, Caps2 |-> caps2, Caps3 |-> DDSCAPS3_NONE,
         Caps4 |-> DDSCAPS4_NONE, Reserved2 |-> 0]

\* init_dds_header_dxt10.
init_dds_header_dxt10(params) ==
    LET dim == CASE params.Volume
                    -> [Dimension |-> D3D11_RESOURCE_DIMENSION_TEXTURE3D, Flags |-> 0]
                 [] ~params.Volume /\ params.Cubemap
                    -> [Dimension |-> D3D11_RESOURCE_DIMENSION_TEXTURE2D,
                        Flags |-> D3D11_RESOURCE_MISC_TEXTURECUBE]
                 [] ~params.Volume /\ ~params.Cubemap
                    /\ (params.BaseWidth = 1 \/ params.BaseHeight = 1)
                    -> [Dimension |-> D3D11_RESOURCE_DIMENSION_TEXTURE1D, Flags |-> 0]
                 [] OTHER
                    -> [Dimension |-> D3D11_RESOURCE_DIMENSION_TEXTURE2D, Flags |-> 0]
    IN  [Format |-> params.Format, Dimension |-> dim.Dimension, Flags |-> dim.Flags,
         ArraySize |-> params.ArraySize, Flags2 |-> params.AlphaMode]

(***************************************************************************)
(* The readers of lldatain.cpp. data is the content of a file: its size,   *)
(* the word at offset 0, the dds_header_t at offset 4 and the              *)
(* dds_header_dxt10_t at offset 128.                                       *)
(***************************************************************************)
dds_header(data) ==
    LET offset   == SizeofUint32
        min_size == offset + SizeofDdsHeader
    IN  IF data.size < min_size
        THEN [ok |-> FALSE, header |-> data.header]
        ELSE IF data.magic # LLDATAIN_DDS_MAGIC_LE
        THEN [ok |-> FALSE, header |-> data.header]
        ELSE [ok |-> TRUE, header |-> data.header]

dds_header_dxt10(data) ==
    LET r        == dds_header(data)
        offset   == SizeofUint32 + SizeofDdsHeader
        min_size == offset + SizeofDxt10
    IN  IF ~r.ok THEN [ok |-> FALSE, header |-> data.dx10]
        ELSE IF data.size < min_size THEN [ok |-> FALSE, header |-> data.dx10]
        ELSE IF BitAnd(r.header.Format.Flags, DDPF_FOURCC) = 0
        THEN [ok |-> FALSE, header |-> data.dx10]
        ELSE IF r.header.Format.FourCC # FourCC_DX10
        THEN [ok |-> FALSE, header |-> data.dx10]
        ELSE [ok |-> TRUE, header |-> data.dx10]

(***************************************************************************)
(* The inputs of a run.                                                    *)
(***************************************************************************)
\* A manifest: json_parse's verdict and the fields of the top-level object.
Manifest(valid, wh, mips, asz, fmt, am, mm, cube, vol, p2, n) ==
    [valid |-> valid,
     Width |-> wh[1], Height |-> wh[2], MaxMipLevels |-> mips, ArraySize |-> asz,
     Format |-> fmt, AlphaMode |-> am, Mipmaps |-> mm, Cubemap |-> cube,
     Volume |-> vol, ForcePow2 |-> p2, SourceFiles |-> n]

\* A document with no field: what root is when the input is no manifest and
\* after json_free.
NoDocument ==
    Manifest(FALSE, << AbsentNode, AbsentNode >>, AbsentNode, AbsentNode, AbsentNode,
             AbsentNode, AbsentNode, AbsentNode, AbsentNode, AbsentNode, AbsentNode)

ManifestDims ==
    { << AbsentNode, AbsentNode >>, << IntNode(3), IntNode(1) >> }
ManifestMipLevels == { AbsentNode, IntNode(0), IntNode(2) }
ManifestArraySizes == { AbsentNode, IntNode(2) }
ManifestFormats == { AbsentNode, StrNode(DXGI_FORMAT_BC1_UNORM) }
ManifestAlphaModes == { AbsentNode }
ManifestFlags == { AbsentNode, BoolNode(TRUE) }
\* ForcePow2 in a manifest does what --pow2 does: the runs take it from argv.
ManifestForcePow2 == { AbsentNode }
ManifestSources == { ArrNode(0), ArrNode(1), ArrNode(2), ArrNode(6), ArrNode(12) }

\* Six and twelve files are the faces of one and of two cubes: arrays and
\* volumes are given up to two files, a volume of cube faces six.
Manifests ==
    { m \in { Manifest(TRUE, wh, mips, asz, fmt, am, mm, cube, vol, p2, n) :
               wh \in ManifestDims, mips \in ManifestMipLevels,
               asz \in ManifestArraySizes, fmt \in ManifestFormats,
               am \in ManifestAlphaModes, mm \in ManifestFlags,
               cube \in ManifestFlags, vol \in ManifestFlags,
               p2 \in ManifestForcePow2, n \in ManifestSources } :
        /\ m.SourceFiles \in {ArrNode(6), ArrNode(12)} => m.Cubemap = BoolNode(TRUE)
        /\ m.SourceFiles = ArrNode(12) => m.Volume = AbsentNode }
    \cup
    \* a file json_parse rejects, a Format string that names no enumerator,
    \* and a manifest whose SourceFiles is null
    { [NoDocument EXCEPT !.SourceFiles = ArrNode(1)],
      [NoDocument EXCEPT !.valid = TRUE, !.Format = StrNode(-1), !.SourceFiles = ArrNode(1)],
      [NoDocument EXCEPT !.valid = TRUE, !.SourceFiles = NullNode] }

\* The command line: whether argv[1] is a manifest or an image file, and
\* whether --mipmap and --pow2 are given.
CommandLines == [input : {"image", "json"}, mipmap : BOOLEAN, pow2 : BOOLEAN]

\* What the stack holds where main's dds_header_t is placed.
StackWords == {0, 52428}

(***************************************************************************)
(* The state of a run of main().                                           *)
(***************************************************************************)
VARIABLES
    call,     \* a call of a library function on its own: arguments and result
    argv,     \* the command line
    root,     \* the JSON document of the input file
    allMips,  \* whether MaxMipLevels was 0 ('all') when modify_params tested it
    params,   \* dds_params_t params
    image0,   \* image_info_t image0
    source0,  \* what load_image returned for SourceFiles[0], once it is decoded
    pc,       \* where main() is
    idx,      \* the loop counter i of write_array_image / write_volume_image
    face,     \* the loop counter i of write_cubemap_image
    fp,       \* the output stream: open, position, size of the file
    ops,      \* the calls made on the output stream, in order
    loads,    \* the load_source calls of the scheduler, in order, with their results
    heap,     \* the pixel buffers that are live, and what was seen of them
    dds,      \* data::dds_header_t dds
    dx10,     \* data::dds_header_dxt10_t dx10
    rerun,    \* the dds a second run on the same inputs writes
    res,      \* bool res
    faults,   \* the environment faults met so far
    status    \* the exit code of the process, once it has exited

vars == << call, argv, root, allMips, params, image0, source0, pc, idx, face, fp, ops, loads, heap, dds, dx10, rerun,
           res, faults, status >>

\* An entry of ops: an fseek to offset at, or an fwrite of nb bytes at offset
\* at. A surface carries the source it was decoded from (src), the array
\* element and cube face being written, and its level and dimensions.
SeekOp(to) ==
    [kind |-> "seek", at |-> to, nb |-> 0, src |-> 0, elem |-> 0, cube |-> 0,
     level |-> 0, lw |-> 0, lh |-> 0]
HeaderOp(kind, at, nb) ==
    [kind |-> kind, at |-> at, nb |-> nb, src |-> 0, elem |-> 0, cube |-> 0,
     level |-> 0, lw |-> 0, lh |-> 0]
SurfaceOp(w, at, src, elem, cube) ==
    [kind |-> "surface", at |-> at, nb |-> w.nb, src |-> src, elem |-> elem,
     cube |-> cube, level |-> w.level, lw |-> w.lw, lh |-> w.lh]

\* The ops of a sequence of surface writes that start at offset at.
RECURSIVE SurfaceOps(_, _, _, _, _)
SurfaceOps(writes, at, src, elem, cube) ==
    IF writes = << >> THEN << >>
    ELSE << SurfaceOp(Head(writes), at, src, elem, cube) >>
         \o SurfaceOps(Tail(writes), at + Head(writes).nb, src, elem, cube)

RECURSIVE TotalBytes(_)
TotalBytes(writes) ==
    IF writes = << >> THEN 0 ELSE Head(writes).nb + TotalBytes(Tail(writes))

\* The stream after fwrite has written nb bytes at its position.
fwrite(stream, nb) ==
    [stream EXCEPT !.pos = stream.pos + nb,
                   !.size = max2(stream.size, stream.pos + nb)]

\* The stream after fseek(fp, offset, SEEK_SET).
fseek(stream, offset) == [stream EXCEPT !.pos = offset]

\* The stream after calls of fwrite or fseek that all succeeded (ok) or of
\* which one failed: a failed call sets the error indicator of the stream and
\* returns a value that no caller reads.  pos and size stay those of the
\* bytes the calls were asked to write.
ferror(stream, ok) == [stream EXCEPT !.err = stream.err \/ ~ok]

\* The structures before main assigns them.
NoHeader == init_dds_header(init_params, 0)
NoDxt10  == init_dds_header_dxt10(init_params)

\* No library function is called on its own in a run of main.
NoCall == [fn |-> "none", arg |-> << >>, done |-> FALSE, out |-> 0]

\* main() before its first statement.
Constructed ==
    /\ allMips = FALSE
    /\ params = init_params
    /\ image0 = NullImage
    /\ source0 = NullImage
    /\ pc = "start"
    /\ idx = 0
    /\ face = 0
    /\ fp = [open |-> FALSE, pos |-> 0, size |-> 0, err |-> FALSE]
    /\ ops = << >>
    /\ loads = << >>
    /\ heap = NoBuffers
    /\ dds = NoHeader
    /\ dx10 = NoDxt10
    /\ rerun = NoHeader
    /\ res = TRUE
    /\ faults = 0
    /\ status = "running"

Init ==
    /\ call = NoCall
    /\ argv \in CommandLines
    /\ root \in IF argv.input = "json" THEN Manifests ELSE {NoDocument}
    /\ Constructed

\* exit(code).
Exit(code) == /\ pc' = "done"
              /\ status' = code

\* The decoder outcomes the fault budget allows.
Decodes == { dec \in DecoderOutcomes : faults < MaxFaults \/ load_image(dec).ok }
Fault(failed) == faults' = IF failed THEN faults + 1 ELSE faults
Count(failed) == IF failed THEN 1 ELSE 0

\* Whether the n calls of fwrite and fseek of a step all succeed, as far as
\* the fault budget allows when used faults were met before them.
IOOutcomes(used, n) ==
    {TRUE} \cup (IF used < MaxFaults /\ n > 0 THEN {FALSE} ELSE {})

\* The resize_image call of a chain whose allocation fails (0: none), as far
\* as the fault budget allows, when used faults were met before the chain.
ResizeFaults(p, used) ==
    {0} \cup (IF used < MaxFaults THEN 1..NumResizeCalls(p) ELSE {})

\* A main that reserves room for the magic word and the base header only.
HeaderBytesNoDxt10 == SizeofUint32 + SizeofDdsHeader

\* sizeof(uint32_t) + sizeof(dds_header_t) + sizeof(dds_header_dxt10_t): the
\* bytes main reserves for the headers.
HeaderBytes == SizeofUint32 + SizeofDdsHeader + SizeofDxt10

(***************************************************************************)
(* main(), step by step.                                                   *)
(***************************************************************************)
\* params_from_path on an image file.
ParamsFromImage ==
    /\ pc = "start"
    /\ argv.input = "image"
    /\ \E dec \in Decodes :
         LET r == load_image(dec)
         IN  /\ Fault(~r.ok)
             /\ image0' = r.image
             /\ heap' = heap_load(heap, r.ok)
             /\ source0' = IF r.ok THEN r.image ELSE source0
             /\ IF r.ok
                THEN /\ params' = path_image_params(r.image)
                     /\ pc' = "params"
                     /\ UNCHANGED status
                ELSE /\ Exit("EXIT_FAILURE")
                     /\ UNCHANGED params
    /\ UNCHANGED << call, argv, root, allMips, idx, face, fp, ops, loads, dds, dx10, rerun, res >>

\* params_from_path on a manifest: params_from_json.
ParamsFromJson ==
    /\ pc = "start"
    /\ argv.input = "json"
    /\ LET r == process_json_object(root, 1, init_params)
           v == validate_params(r.params)
       IN  IF ~root.valid
           THEN /\ params' = init_params
                /\ Exit("EXIT_FAILURE")
                /\ UNCHANGED << image0, source0, heap, faults >>
           ELSE IF ~r.ok \/ ~v.ok
           THEN /\ params' = (IF r.ok THEN v.params ELSE r.params)
                /\ Exit("EXIT_FAILURE")
                /\ UNCHANGED << image0, source0, heap, faults >>
           ELSE IF v.params.SourceCount = 1 /\ ~v.params.Volume
           THEN \E dec \in Decodes :
                  LET l == load_image(dec)
                  IN  /\ Fault(~l.ok)
                      /\ image0' = l.image
                      /\ heap' = heap_load(heap, l.ok)
                      /\ source0' = IF l.ok THEN l.image ELSE source0
                      /\ IF l.ok
                         THEN /\ params' = json_single_defaults(v.params, l.image)
                              /\ pc' = "params"
                              /\ UNCHANGED status
                         ELSE /\ params' = v.params
                              /\ Exit("EXIT_FAILURE")
           ELSE /\ params' = [v.params EXCEPT !.SourceIndex = 1]
                /\ image0' = NullImage
                /\ pc' = "params"
                /\ UNCHANGED << source0, heap, status, faults >>
    /\ root' = IF root.valid THEN NoDocument ELSE root   \* json_free
    /\ UNCHANGED << call, argv, allMips, idx, face, fp, ops, loads, dds, dx10, rerun, res >>

\* modify_params.
ModifyParams ==
    /\ pc = "params"
    /\ params' = modify_params(argv.mipmap, argv.pow2, params)
    /\ allMips' = (modify_requested(argv.mipmap, argv.pow2, params).MaxMipLevels = 0)
    /\ pc' = "modified"
    /\ UNCHANGED << call, argv, root, image0, source0, idx, face, fp, ops, loads, heap, dds, dx10, rerun, res,
                    faults, status >>

\* fopen of the output file and the fseek past the bytes of the headers.
OpenOutput ==
    /\ pc = "modified"
    /\ \E outcome \in {"ok", "fopen", "fseek"} :
         /\ outcome = "ok" \/ faults < MaxFaults
         /\ Fault(outcome # "ok")
         /\ IF outcome = "ok"
            THEN /\ fp' = [open |-> TRUE, pos |-> HeaderBytes, size |-> 0, err |-> FALSE]
                 /\ ops' = << SeekOp(HeaderBytes) >>
                 /\ pc' = "opened"
                 /\ UNCHANGED << status, image0, heap >>
            ELSE /\ Exit("EXIT_FAILURE")
                 /\ image0' = IF outcome = "fseek" THEN free_image(image0) ELSE image0
                 /\ heap' = IF outcome = "fseek" THEN heap_free_image(heap) ELSE heap
                 /\ UNCHANGED << fp, ops >>
    /\ UNCHANGED << call, argv, root, allMips, params, source0, idx, face, loads, dds, dx10, rerun, res >>

\* The scheduler when the single source was loaded while the parameters were
\* read: write_image_chain on image0.
WriteSingleImage ==
    /\ pc = "opened"
    /\ image0.Pixels
    /\ \E failAt \in ResizeFaults(params, faults) :
         LET r == write_image_chain(params, image0, failAt)
         IN  \E io \in IOOutcomes(faults + Count(failAt # 0), Len(r.writes)) :
             /\ faults' = faults + Count(failAt # 0) + Count(~io)
             /\ res' = r.ok
             /\ ops' = ops \o SurfaceOps(r.writes, fp.pos, 0, 0, 0)
             /\ fp' = ferror(fwrite(fp, TotalBytes(r.writes)), io)
             /\ heap' = heap_free_image(write_image_chain_heap(heap, params, failAt))
    /\ image0' = free_image(image0)
    /\ pc' = "scheduled"
    /\ UNCHANGED << call, argv, root, allMips, params, source0, idx, face, loads, dds, dx10, rerun, status >>

\* write_array_image up to its first loop iteration.
BeginArrayImage ==
    /\ pc = "opened"
    /\ ~image0.Pixels
    /\ ~params.Volume
    /\ params' = [params EXCEPT !.SourceIndex = 0]
    /\ idx' = 0
    /\ face' = 0
    /\ IF params.ArraySize = 0
       THEN /\ res' = TRUE
            /\ pc' = "scheduled"
       ELSE /\ pc' = IF params.Cubemap THEN "cubemap" ELSE "array"
            /\ UNCHANGED res
    /\ UNCHANGED << call, argv, root, allMips, image0, source0, fp, ops, loads, heap, dds, dx10, rerun, faults, status >>

\* A loop that takes every image for the first.
first_image_every(i) == TRUE

\* 'if (i == 0)': the loop iteration that takes the defaults from its image.
first_image(i) == i = 0

\* The scheduler returns: its result goes to res.
Return(result) == /\ res' = result
                  /\ pc' = "scheduled"

\* One iteration of the loop of write_array_image over the array elements.
ArrayElement ==
    /\ pc = "array"
    /\ IF params.SourceIndex = params.SourceCount
       THEN \* load_next_source: no more source files to load
            /\ Return(FALSE)
            /\ UNCHANGED << params, source0, idx, fp, ops, loads, heap, faults >>
       ELSE \E dec \in Decodes :
              LET l  == load_image(dec)
                  p1 == [params EXCEPT !.SourceIndex = params.SourceIndex + 1]
                  p2 == IF first_image(idx) THEN array_defaults(p1, l.image) ELSE p1
              IN  /\ loads' = Append(loads, [src |-> params.SourceIndex, ok |-> l.ok])
                  /\ source0' = IF params.SourceIndex = 0 /\ l.ok THEN l.image ELSE source0
                  /\ IF ~l.ok
                     THEN /\ Fault(TRUE)
                          /\ heap' = heap_load(heap, FALSE)
                          /\ params' = p1
                          /\ Return(FALSE)
                          /\ UNCHANGED << idx, fp, ops >>
                     ELSE \E failAt \in ResizeFaults(p2, faults) :
                            LET r == write_image_chain(p2, l.image, failAt)
                            IN  \E io \in IOOutcomes(faults + Count(failAt # 0),
                                                      Len(r.writes)) :
                                /\ faults' = faults + Count(failAt # 0) + Count(~io)
                                /\ params' = p2
                                /\ ops' = ops \o SurfaceOps(r.writes, fp.pos,
                                                            params.SourceIndex, idx, 0)
                                /\ fp' = ferror(fwrite(fp, TotalBytes(r.writes)), io)
                                /\ heap' = heap_free_image(write_image_chain_heap(
                                               heap_load(heap, TRUE), p2, failAt))
                                /\ IF ~r.ok
                                   THEN /\ Return(FALSE)
                                        /\ UNCHANGED idx
                                   ELSE /\ idx' = idx + 1
                                        /\ IF idx + 1 < params.ArraySize
                                           THEN UNCHANGED << res, pc >>
                                           ELSE Return(TRUE)
    /\ UNCHANGED << call, argv, root, allMips, image0, face, dds, dx10, rerun, status >>

\* The loop counters after a face of write_cubemap_image is done, and the
\* return of write_array_image after the last face of the last element.
NextFace ==
    IF face + 1 < CubeFaces
    THEN /\ face' = face + 1
         /\ UNCHANGED << idx, res, pc >>
    ELSE /\ face' = 0
         /\ idx' = idx + 1
         /\ IF idx + 1 < params.ArraySize
            THEN UNCHANGED << res, pc >>
            ELSE Return(TRUE)

\* One iteration of the loop of write_cubemap_image over the six faces, for
\* element idx of the loop of write_array_image.
CubemapFace ==
    /\ pc = "cubemap"
    /\ IF params.SourceIndex = params.SourceCount
       THEN \* load_next_source returns false: the face is passed over
            /\ NextFace
            /\ UNCHANGED << params, source0, fp, ops, loads, heap, faults >>
       ELSE \E dec \in Decodes :
              LET first_face == params.SourceIndex = 0
                  l  == load_image(dec)
                  p1 == [params EXCEPT !.SourceIndex = params.SourceIndex + 1]
                  p2 == IF first_face THEN array_defaults(p1, l.image) ELSE p1
              IN  /\ loads' = Append(loads, [src |-> params.SourceIndex, ok |-> l.ok])
                  /\ source0' = IF params.SourceIndex = 0 /\ l.ok THEN l.image ELSE source0
                  /\ IF ~l.ok
                     THEN \* load_next_source returns false: the face is passed over
                          /\ Fault(TRUE)
                          /\ heap' = heap_load(heap, FALSE)
                          /\ params' = p1
                          /\ NextFace
                          /\ UNCHANGED << fp, ops >>
                     ELSE \E failAt \in ResizeFaults(p2, faults) :
                            LET r == write_image_chain(p2, l.image, failAt)
                            IN  \E io \in IOOutcomes(faults + Count(failAt # 0),
                                                      Len(r.writes)) :
                                /\ faults' = faults + Count(failAt # 0) + Count(~io)
                                /\ params' = p2
                                /\ ops' = ops \o SurfaceOps(r.writes, fp.pos,
                                                            params.SourceIndex, idx, face)
                                /\ fp' = ferror(fwrite(fp, TotalBytes(r.writes)), io)
                                /\ heap' = LET h == write_image_chain_heap(
                                                      heap_load(heap, TRUE), p2, failAt)
                                           IN  IF r.ok THEN heap_free_image(h) ELSE h
                                /\ IF ~r.ok
                                   THEN /\ Return(FALSE)
                                        /\ UNCHANGED << idx, face >>
                                   ELSE NextFace
    /\ UNCHANGED << call, argv, root, allMips, image0, dds, dx10, rerun, status >>

\* write_volume_image up to its first loop iteration.
BeginVolumeImage ==
    /\ pc = "opened"
    /\ ~image0.Pixels
    /\ params.Volume
    /\ params' = [params EXCEPT !.SourceIndex = 0]
    /\ idx' = 0
    /\ face' = 0
    /\ IF params.SourceCount = 0
       THEN /\ res' = TRUE
            /\ pc' = "scheduled"
       ELSE /\ pc' = "volume"
            /\ UNCHANGED res
    /\ UNCHANGED << call, argv, root, allMips, image0, source0, fp, ops, loads, heap, dds, dx10, rerun, faults, status >>

\* One iteration of the loop of write_volume_image over the slices.
VolumeSlice ==
    /\ pc = "volume"
    /\ IF params.SourceIndex = params.SourceCount
       THEN /\ Return(FALSE)
            /\ UNCHANGED << params, source0, idx, fp, ops, loads, heap, faults >>
       ELSE \E dec \in Decodes :
              LET l  == load_image(dec)
                  p1 == [params EXCEPT !.SourceIndex = params.SourceIndex + 1]
                  p2 == IF first_image(idx) THEN volume_defaults(p1, l.image) ELSE p1
                  resample == p2.Width # p2.BaseWidth \/ p2.Height # p2.BaseHeight
              IN  /\ loads' = Append(loads, [src |-> params.SourceIndex, ok |-> l.ok])
                  /\ source0' = IF params.SourceIndex = 0 /\ l.ok THEN l.image ELSE source0
                  /\ IF ~l.ok
                     THEN /\ Fault(TRUE)
                          /\ heap' = heap_load(heap, FALSE)
                          /\ params' = p1
                          /\ Return(FALSE)
                          /\ UNCHANGED << idx, fp, ops >>
                     ELSE \E alloc \in BOOLEAN, io \in BOOLEAN :
                            /\ alloc \/ (resample /\ faults < MaxFaults)
                            /\ io \/ ((alloc \/ ~resample) /\ faults + Count(~alloc) < MaxFaults)
                            /\ faults' = faults + Count(~alloc) + Count(~io)
                            /\ params' = p2
                            /\ IF resample
                                  /\ ~resize_image(l.image, p2.Width, p2.Height, alloc).ok
                               THEN /\ Return(FALSE)
                                    /\ heap' = heap_resize(heap_load(heap, TRUE), FALSE)
                                    /\ UNCHANGED << idx, fp, ops >>
                               ELSE LET w == SurfaceWrite(p2, 0, p2.Width, p2.Height)
                                        h == heap_load(heap, TRUE)
                                    IN  /\ heap' = heap_free_image(
                                                      IF resample
                                                      THEN heap_free_decoded(heap_resize(h, TRUE))
                                                      ELSE h)
                                        /\ ops' = ops \o SurfaceOps(<< w >>, fp.pos,
                                                                    params.SourceIndex, 0, 0)
                                        /\ fp' = ferror(fwrite(fp, w.nb), io)
                                        /\ idx' = idx + 1
                                        /\ IF idx + 1 < params.SourceCount
                                           THEN UNCHANGED << res, pc >>
                                           ELSE Return(TRUE)
    /\ UNCHANGED << call, argv, root, allMips, image0, face, dds, dx10, rerun, status >>

\* The end of main: seek back to the start of the file, fill in the headers
\* from params, write them, close the file and exit. res is not read.
WriteHeaders ==
    /\ pc = "scheduled"
    /\ \E reserved1 \in StackWords : dds' = init_dds_header(params, reserved1)
    /\ \E reserved1 \in StackWords : rerun' = init_dds_header(params, reserved1)
    /\ dx10' = init_dds_header_dxt10(params)
    /\ ops' = ops \o << SeekOp(0),
                        HeaderOp("magic", 0, SizeofUint32),
                        HeaderOp("header", SizeofUint32, SizeofDdsHeader),
                        HeaderOp("dxt10", SizeofUint32 + SizeofDdsHeader, SizeofDxt10) >>
    /\ \E io \in IOOutcomes(faults, 4) :
         /\ fp' = [ferror(fwrite(fseek(fp, 0), HeaderBytes), io) EXCEPT !.open = FALSE]
         /\ Fault(~io)
    /\ Exit("EXIT_SUCCESS")
    /\ UNCHANGED << call, argv, root, allMips, params, image0, source0, idx, face, loads, heap, res >>

Next ==
    \/ ParamsFromImage
    \/ ParamsFromJson
    \/ ModifyParams
    \/ OpenOutput
    \/ WriteSingleImage
    \/ BeginArrayImage
    \/ ArrayElement
    \/ CubemapFace
    \/ BeginVolumeImage
    \/ VolumeSlice
    \/ WriteHeaders

Spec == Init /\ [][Next]_vars

(***************************************************************************)
(* The library functions called on their own: the arguments are drawn in   *)
(* the initial state, and one step applies the function to them.           *)
(***************************************************************************)
\* Every value of the DXGI enumeration, and one past its last.
Formats == DXGI_FORMAT_UNKNOWN .. (DXGI_FORMAT_B4G4R4A4_UNORM + 1)

\* The fields of a manifest other than SourceFiles.
ValueKeys == { Keys[k] : k \in 1..Len(Keys) } \ {"SourceFiles"}

Calls ==
    { [NoCall EXCEPT !.fn = "dds_pitch", !.arg = << format, width >>] :
        format \in Formats, width \in 0..MaxWidth }
    \cup { [NoCall EXCEPT !.fn = "dds_format", !.arg = << format >>] : format \in Formats }
    \cup { [NoCall EXCEPT !.fn = "pow2_ge", !.arg = << value, 1 >>] :
             value \in 0..(2 ^ WordBits - 1) }
    \cup { [NoCall EXCEPT !.fn = "process_json_node", !.arg = << doc, key >>] :
             doc \in { m \in Manifests : m.valid }, key \in ValueKeys }

mainvars == << argv, root, allMips, params, image0, source0, pc, idx, face, fp, ops, loads,
               heap, dds, dx10, rerun, res, faults, status >>

FunctionInit ==
    /\ call \in Calls
    /\ argv = [input |-> "image", mipmap |-> FALSE, pow2 |-> FALSE]
    /\ root = NoDocument
    /\ Constructed

\* The call once the function has returned out.
Returned(out) == [call EXCEPT !.done = TRUE, !.out = out]

\* dds_pitch(format, width).
PitchCall ==
    /\ call.fn = "dds_pitch"
    /\ ~call.done
    /\ call' = Returned(dds_pitch(call.arg[1], call.arg[2]))
    /\ UNCHANGED mainvars

\* dds_block_compressed, dds_bits_per_pixel and dds_bytes_per_block of a format.
FormatCall ==
    /\ call.fn = "dds_format"
    /\ ~call.done
    /\ call' = Returned([block_compressed |-> dds_block_compressed(call.arg[1]),
                         bits_per_pixel   |-> dds_bits_per_pixel(call.arg[1]),
                         bytes_per_block  |-> dds_bytes_per_block(call.arg[1])])
    /\ UNCHANGED mainvars

\* pow2_ge(value, 1) on a size_t of WordBits bits.
Pow2Call ==
    /\ call.fn = "pow2_ge"
    /\ ~call.done
    /\ call' = Returned(pow2_ge_word(call.arg[1], call.arg[2]))
    /\ UNCHANGED mainvars

\* process_json_node over the fields of a manifest, once with the field key
\* null and once without the field.
NullFieldCall ==
    /\ call.fn = "process_json_node"
    /\ ~call.done
    /\ call' = Returned(
         [null    |-> process_json_object([call.arg[1] EXCEPT ![call.arg[2]] = NullNode],
                                          1, init_params),
          omitted |-> process_json_object([call.arg[1] EXCEPT ![call.arg[2]] = AbsentNode],
                                          1, init_params)])
    /\ UNCHANGED mainvars

FunctionNext ==
    \/ PitchCall
    \/ FormatCall
    \/ Pow2Call
    \/ NullFieldCall

FunctionSpec == FunctionInit /\ [][FunctionNext]_vars

(***************************************************************************)
(* Views of a run that the properties below read.                          *)
(***************************************************************************)
\* The surface writes of the run, in the order they were made.
Surfaces == SelectSeq(ops, LAMBDA o : o.kind = "surface")

\* The level-0 surfaces: one per face (or element, or slice) written.
Faces == SelectSeq(Surfaces, LAMBDA o : o.level = 0)

\* The scheduler has returned to main.
SchedulerReturned == pc = "scheduled" \/ status = "EXIT_SUCCESS"

\* The surfaces of the chain that starts at Surfaces[i], a level-0 surface.
ChainOf(i) ==
    { j \in i..Len(Surfaces) : \A k \in (i + 1)..j : Surfaces[k].level # 0 }

RECURSIVE FloorLog2(_)
FloorLog2(n) == IF n <= 1 THEN 0 ELSE 1 + FloorLog2(n \div 2)

Min2(a, b) == IF a < b THEN a ELSE b

\* The rows of a surface of height lh: block rows for a block-compressed format.
RowsOf(format, lh) == IF dds_block_compressed(format) THEN (lh + 3) \div 4 ELSE lh

\* The bytes of a sequence of surfaces of a format, each of pitch * rows bytes.
RECURSIVE SurfaceBytes(_, _)
SurfaceBytes(format, seq) ==
    IF seq = << >> THEN 0
    ELSE dds_pitch(format, Head(seq).lw) * RowsOf(format, Head(seq).lh)
         + SurfaceBytes(format, Tail(seq))

\* The content of the output file as the readers of lldatain.cpp see it.
FileData ==
    [size   |-> fp.size,
     magic  |-> IF \E i \in 1..Len(ops) : ops[i].kind = "magic" THEN FourCC_DDS ELSE 0,
     header |-> dds,
     dx10   |-> dx10]

(***************************************************************************)
(* The properties.                                                         *)
(***************************************************************************)
\* C1: for every array or cubemap job the scheduler completes, the faces are
\* written in the order of the sources, none skipped, repeated or reordered:
\* the n-th face written is decoded from source n-1, it is face (n-1) mod 6
\* of set (n-1) div 6 for a cubemap and element n-1 for a plain array, and
\* within a face the mip levels ascend from 0 by one.
C1_SurfaceOrder ==
    (SchedulerReturned /\ res /\ ~params.Volume) =>
       /\ \A n \in 1..Len(Faces) :
            /\ Faces[n].src = n - 1
            /\ Faces[n].elem = IF params.Cubemap THEN (n - 1) \div CubeFaces ELSE n - 1
            /\ Faces[n].cube = IF params.Cubemap THEN (n - 1) % CubeFaces ELSE 0
       /\ \A j \in 1..Len(Surfaces) :
            \/ Surfaces[j].level = 0
            \/ /\ j > 1
               /\ Surfaces[j].src = Surfaces[j - 1].src
               /\ Surfaces[j].level = Surfaces[j - 1].level + 1

\* C2: in every run that opens the output file the first call on the stream
\* is the seek to offset 148; every call between it and the scheduler's
\* return is a surface write, the surfaces lying back to back from offset
\* 148; the seek to 0 and the writes of the magic word (4 bytes at 0), the
\* base header (124 bytes at 4) and the DXT10 header (20 bytes at 128) are
\* the last four calls and are made only by the run that exits successfully
\* after the scheduler returned; and the headers written are the ones the
\* synthesizer computes from the parameters as the scheduler left them, the
\* parameters every base surface was written with.
C2_HeadersLast ==
    /\ (fp.open \/ ops # << >>) => (Len(ops) >= 1 /\ ops[1] = SeekOp(148))
    /\ status # "EXIT_SUCCESS" =>
         \A i \in 2..Len(ops) : ops[i].kind = "surface"
    /\ status = "EXIT_SUCCESS" =>
         LET n == Len(ops)
         IN  /\ n >= 5
             /\ \A i \in 2..(n - 4) : ops[i].kind = "surface"
             /\ ops[n - 3] = SeekOp(0)
             /\ ops[n - 2] = HeaderOp("magic", 0, 4)
             /\ ops[n - 1] = HeaderOp("header", 4, 124)
             /\ ops[n] = HeaderOp("dxt10", 128, 20)
             /\ ~fp.open
             /\ dds = init_dds_header(params, dds.Reserved1)
             /\ dx10 = init_dds_header_dxt10(params)
             /\ LET base == Faces
                IN  \A k \in 1..Len(base) :
                       /\ base[k].lw = dds.Width
                       /\ base[k].lh = dds.Height
                       /\ base[k].nb = dds_pitch(dx10.Format, dds.Width) * dds.Height
    /\ LET written == Surfaces
       IN  \A j \in 1..Len(written) :
              written[j].at = IF j = 1 THEN 148
                              ELSE written[j - 1].at + written[j - 1].nb

\* C2's case: a run that exited successfully after writing two surfaces or
\* more from parameters the scheduler completed from the first source.
C2_Witness ==
    /\ status = "EXIT_SUCCESS"
    /\ res
    /\ Len(Surfaces) >= 2
    /\ ~params.Volume
    /\ image0 = NullImage
    /\ params.BaseWidth # 0
    /\ dds.Width # 0

\* C3: for every successfully written file, the size of the file is 148 plus
\* the sum over the surfaces written of pitch(format, lw) * rows, where rows
\* is ceil(lh / 4) for a block-compressed format and lh otherwise (each
\* surface written is one slice deep).
C3_FileSize ==
    (status = "EXIT_SUCCESS" /\ res) =>
       fp.size = 148 + SurfaceBytes(params.Format, Surfaces)

\* C4: for every cubemap job the parser accepted, the ArraySize written to
\* the DXT10 header is the number of sources divided by six, and when the
\* scheduler completed the number of surfaces written is ArraySize * 6 *
\* MaxMipLevels, whatever ArraySize the manifest gave.
C4_CubemapArraySize ==
    (status = "EXIT_SUCCESS" /\ params.Cubemap /\ ~params.Volume) =>
       /\ dx10.ArraySize = params.SourceCount \div CubeFaces
       /\ res => Len(Surfaces) = dx10.ArraySize * CubeFaces * params.MaxMipLevels

\* C5: in every chain of a mipmapped array, cubemap or single-image job the
\* scheduler completed, level l of a base level W x H is max(1, W >> l) x
\* max(1, H >> l), and the chain has min(MaxMipLevels, 1 + floor(log2
\* max(W, H))) levels: none after the 1x1 level.
C5_ChainLength ==
    (SchedulerReturned /\ res /\ ~params.Volume /\ params.Mipmaps) =>
       \A i \in 1..Len(Surfaces) :
          (Surfaces[i].level = 0 /\ Surfaces[i].lw >= 1 /\ Surfaces[i].lh >= 1) =>
             LET W == Surfaces[i].lw
                 H == Surfaces[i].lh
             IN  /\ \A j \in ChainOf(i) :
                      /\ Surfaces[j].level = j - i
                      /\ Surfaces[j].lw = max2(1, W \div (2 ^ (j - i)))
                      /\ Surfaces[j].lh = max2(1, H \div (2 ^ (j - i)))
                 /\ Cardinality(ChainOf(i))
                      = Min2(params.MaxMipLevels, 1 + FloorLog2(max2(W, H)))

\* C6: when MaxMipLevels is 0 ('all') for a mipmapped bare image, single-source
\* manifest, array or cubemap, the mip count of the header written is 1 +
\* floor(log2 max(Width, Height)) of the final Width and Height, inherited
\* from the first source or not, and the last surface written is 1x1.
C6_AllMipLevels ==
    (status = "EXIT_SUCCESS" /\ allMips /\ res /\ ~params.Volume /\ params.Mipmaps
       /\ dds.Width >= 1 /\ dds.Height >= 1) =>
       /\ dds.Levels = 1 + FloorLog2(max2(dds.Width, dds.Height))
       /\ Len(Surfaces) > 0 =>
            /\ Surfaces[Len(Surfaces)].lw = 1
            /\ Surfaces[Len(Surfaces)].lh = 1

\* C7: a source that fails to decode while the scheduler runs is the last
\* source the scheduler loads: the scheduler has returned, and returned
\* failure.
C7_DecodeFailureStops ==
    \A i \in 1..Len(loads) :
       ~loads[i].ok => (i = Len(loads) /\ SchedulerReturned /\ ~res)

\* C8: the process exits with EXIT_SUCCESS only when the scheduler reported
\* success.
C8_ExitCode == status = "EXIT_SUCCESS" => res

\* C9: for every file written, dds_header accepts the file and returns a
\* header whose Size is 124, and dds_header_dxt10 finds the extended header
\* and returns the format of the job.
C9_ReadBack ==
    status = "EXIT_SUCCESS" =>
       /\ dds_header(FileData).ok
       /\ dds_header(FileData).header.Size = 124
       /\ dds_header_dxt10(FileData).ok
       /\ dds_header_dxt10(FileData).header.Format = params.Format

\* C10: the pixel format of the base header written has DDPF_FOURCC set in
\* its Flags and 'DX10' as its FourCC, whatever the format of the job.
C10_PixelFormatFourCC ==
    status = "EXIT_SUCCESS" =>
       /\ BitAnd(dds.Format.Flags, DDPF_FOURCC) = DDPF_FOURCC
       /\ dds.Format.FourCC = FourCC_DX10

\* n is a power of two.
PowerOfTwo(n) == \E k \in 0..16 : n = 2 ^ k

\* The alpha mode the channel count of an image stands for.
AlphaModeOf(image) ==
    IF image.Channels = 4 THEN DDS_ALPHA_MODE_PREMULTIPLIED ELSE DDS_ALPHA_MODE_OPAQUE

\* flags has the bit (or one of the bits) of mask.
HasFlag(flags, mask) == BitAnd(flags, mask) # 0

\* C11: for a job that wrote its surfaces, the Flags of the base header have DDSD_LINEARSIZE exactly when
\* the format is block-compressed and DDSD_PITCH exactly when it is not, and
\* the Pitch field is pitch(format, width) for an uncompressed format and
\* pitch(format, width) * ceil(height / 4), the bytes of the top level, for a
\* block-compressed one.
C11_PitchOrLinearSize ==
    (status = "EXIT_SUCCESS" /\ res /\ source0.Pixels) =>
       LET bc == dds_block_compressed(dx10.Format)
       IN  /\ HasFlag(dds.Flags, DDSD_LINEARSIZE) <=> bc
           /\ HasFlag(dds.Flags, DDSD_PITCH) <=> ~bc
           /\ dds.Pitch = dds_pitch(dx10.Format, dds.Width)
                          * (IF bc THEN (dds.Height + 3) \div 4 ELSE 1)

\* C12: the Levels (MipMapCount) field of the base header written is 0 when
\* the job has at most one mip level and Mipmaps is unset, and the resolved
\* MaxMipLevels otherwise.
C12_MipMapCount ==
    status = "EXIT_SUCCESS" =>
       dds.Levels = IF params.MaxMipLevels <= 1 /\ ~params.Mipmaps
                    THEN 0 ELSE params.MaxMipLevels

\* C13: the Depth field of the base header written is 1 for every job that
\* is no volume and wrote its surfaces: single image, array of any number of
\* sources, cubemap.
C13_DepthNonVolume ==
    (status = "EXIT_SUCCESS" /\ res /\ source0.Pixels /\ ~params.Volume) => dds.Depth = 1

\* C14: the Dimension of the DXT10 header written is TEXTURE3D for a volume,
\* TEXTURE1D for a job that is neither volume nor cubemap and whose target
\* Height is 1, and TEXTURE2D otherwise, whatever the width and whatever the
\* height of the source.
C14_Dimension ==
    (status = "EXIT_SUCCESS" /\ res /\ source0.Pixels) =>
       dx10.Dimension =
          IF params.Volume THEN D3D11_RESOURCE_DIMENSION_TEXTURE3D
          ELSE IF ~params.Cubemap /\ dds.Height = 1
               THEN D3D11_RESOURCE_DIMENSION_TEXTURE1D
               ELSE D3D11_RESOURCE_DIMENSION_TEXTURE2D

\* C15: with no AlphaMode in the job (no manifest of the runs gives one), the
\* Flags2 of the DXT10 header written is PREMULTIPLIED when the first source
\* has 4 channels and OPAQUE otherwise, on every path: bare image, manifest
\* of one source, array, cubemap, volume.
C15_AlphaModeDefault ==
    (status = "EXIT_SUCCESS" /\ source0.Pixels) => dx10.Flags2 = AlphaModeOf(source0)

\* C16: whenever ForcePow2 is set, by the manifest or by --pow2, the Width and
\* Height of the header written and of every level-0 surface are powers of
\* two, for every job whose first source was decoded, dimensions inherited
\* from that source included.
C16_ForcePow2 ==
    (status = "EXIT_SUCCESS" /\ res /\ source0.Pixels /\ params.ForcePow2) =>
       /\ PowerOfTwo(dds.Width)
       /\ PowerOfTwo(dds.Height)
       /\ \A k \in 1..Len(Faces) : PowerOfTwo(Faces[k].lw) /\ PowerOfTwo(Faces[k].lh)

\* C17: when the header of a volume job is written, Mipmaps is false and
\* MaxMipLevels is 1, and the Caps written have no DDSCAPS_MIPMAP, whether
\* mipmaps were asked for in the manifest or with --mipmap.
C17_VolumeNoMipmaps ==
    (status = "EXIT_SUCCESS" /\ params.Volume) =>
       /\ ~params.Mipmaps
       /\ params.MaxMipLevels = 1
       /\ ~HasFlag(dds.Caps, DDSCAPS_MIPMAP)

\* What C18 says of the file of a volume job of n sources: n slices in source
\* order, each of pitch(format, width) * height bytes, Depth n, DDSD_DEPTH,
\* DDSCAPS2_VOLUME, TEXTURE3D and ArraySize 1.
VolumeFile(n) ==
    /\ Len(Surfaces) = n
    /\ \A j \in 1..Len(Surfaces) :
         /\ Surfaces[j].src = j - 1
         /\ Surfaces[j].level = 0
         /\ Surfaces[j].nb = dds_pitch(dx10.Format, dds.Width) * dds.Height
    /\ dds.Depth = n
    /\ HasFlag(dds.Flags, DDSD_DEPTH)
    /\ HasFlag(dds.Caps2, DDSCAPS2_VOLUME)
    /\ dx10.Dimension = D3D11_RESOURCE_DIMENSION_TEXTURE3D
    /\ dx10.ArraySize = 1

\* Every source of the job was loaded and decoded.
AllDecoded ==
    /\ Len(loads) = params.SourceCount
    /\ \A i \in 1..Len(loads) : loads[i].ok

C19_ReservedZero ==
    status = "EXIT_SUCCESS" =>
       /\ dds.Reserved1 = 0
       /\ dds.Caps3 = 0
       /\ dds.Caps4 = 0
       /\ dds.Reserved2 = 0

\* C20: a second run on the same inputs, with the same decoder and resampler
\* results, writes the same header bytes as the first (the surfaces and the
\* DXT10 header are computed from params alone).
C20_Deterministic == status = "EXIT_SUCCESS" => dds = rerun

(***************************************************************************)
(* Properties of the output stream, the pixel buffers and the Job.         *)
(***************************************************************************)
\* C21: a failed write or seek on the output file is fatal: a run in which a
\* surface write, the seek back to offset 0 or a header write failed does not
\* end with the success outcome.
C21_WriteFailureFatal == status = "EXIT_SUCCESS" => ~fp.err

\* C22 as stated: at every point of a run at most one decoded source image and
\* at most one resampled buffer are live, and no buffer is live when the
\* scheduler starts loading a source.
C22_OneDecodedOneResampled ==
    /\ heap.peakDec <= 1
    /\ heap.peakRes <= 1
    /\ heap.atLoad = 0

\* C22, amended: at every point of a run at most one decoded source image and
\* at most two resampled buffers (the resized level 0 and one mip level) are
\* live, never more than two buffers in all, and no buffer is live when a
\* source starts loading.
C22_Buffers ==
    /\ heap.peakDec <= 1
    /\ heap.peakRes <= 2
    /\ heap.peakAll <= 2
    /\ heap.atLoad = 0

\* A second source was loaded after a chain held its resized level 0 and a
\* mip level at one time.
C22_Witness ==
    /\ heap.peakRes = 2
    /\ Len(loads) >= 2
    /\ loads[Len(loads)].ok

\* The Job fields the defaulter may assign, and the flags.
JobFields(p) ==
    << p.Width, p.Height, p.BaseWidth, p.BaseHeight, p.Format, p.AlphaMode,
       p.MaxMipLevels, p.ArraySize, p.Mipmaps, p.Cubemap, p.Volume, p.ForcePow2 >>

\* C23: once the scheduler has handled the first source, no step of it (a
\* later source, face, slice or mip level) and not the writing of the headers
\* changes width, height, base_width, base_height, format, alpha_mode,
\* max_mip_levels, array_size or a flag of the Job.
C23_JobFrozen ==
    [][ (pc \in {"array", "cubemap", "volume", "scheduled"} /\ params.SourceIndex >= 1)
          => JobFields(params') = JobFields(params) ]_vars

\* The headers are written after a second source with its mip levels was
\* handled under defaults taken from the first.
C23_Witness ==
    /\ status = "EXIT_SUCCESS"
    /\ params.SourceIndex >= 2
    /\ source0.Pixels
    /\ params.BaseWidth = source0.Width
    /\ \E i \in 1..Len(Surfaces) : Surfaces[i].src = 1 /\ Surfaces[i].level = 1

\* The defaulting steps of the scheduler of a Job, on its first image.
Defaulter(p, image) ==
    IF p.Volume THEN volume_defaults(p, image) ELSE array_defaults(p, image)

\* C24: the defaulter is idempotent: once the scheduler has applied the
\* defaulting steps to the Job with the first image, applying them again with
\* the same image leaves every field of the Job unchanged.
C24_DefaulterIdempotent ==
    (loads # << >> /\ loads[1].ok) => Defaulter(params, source0) = params

\* The defaulter has inherited the width and the format of the first image
\* and expanded MaxMipLevels = 0 to a chain of more than one level.
C24_Witness ==
    /\ loads # << >> /\ loads[1].ok
    /\ allMips
    /\ params.MaxMipLevels >= 2
    /\ params.Width = source0.Width
    /\ params.Format = source0.Format

(***************************************************************************)
(* Properties of the library functions.                                    *)
(***************************************************************************)
\* The least integer that is no less than a / b.
CeilDiv(a, b) == (a + b - 1) \div b

\* C25 as stated: dds_pitch(format, width) is max(1, ceil(width/4)) *
\* block_bytes(format) for a block-compressed format, ceil((width+1)/2) * 4
\* for a packed format, and ceil(width * bpp(format) / 8) otherwise.
C25_Pitch ==
    (call.fn = "dds_pitch" /\ call.done) =>
        LET format == call.arg[1]
            width  == call.arg[2]
        IN  call.out =
              IF dds_block_compressed(format)
              THEN max2(1, CeilDiv(width, 4)) * dds_bytes_per_block(format)
              ELSE IF dds_packed(format)
              THEN CeilDiv(width + 1, 2) * 4
              ELSE CeilDiv(width * dds_bits_per_pixel(format), 8)

\* C25, amended: as above, with ceil(width/2) * 4 for a packed format (one
\* four-byte group for every two pixels), for the widths whose products and
\* sums fit a size_t.
C25_PitchPacked ==
    (call.fn = "dds_pitch" /\ call.done) =>
        LET format == call.arg[1]
            width  == call.arg[2]
        IN  call.out =
              IF dds_block_compressed(format)
              THEN max2(1, CeilDiv(width, 4)) * dds_bytes_per_block(format)
              ELSE IF dds_packed(format)
              THEN CeilDiv(width, 2) * 4
              ELSE CeilDiv(width * dds_bits_per_pixel(format), 8)

\* dds_pitch has returned for a packed format and an even width of two
\* pixels or more.
C25_Witness ==
    /\ call.fn = "dds_pitch" /\ call.done
    /\ dds_packed(call.arg[1])
    /\ call.arg[2] >= 2 /\ call.arg[2] % 2 = 0

\* C26: for every format of the DXGI enumeration: a block-compressed format
\* has bits-per-pixel 0 and bytes-per-block nonzero, any other format has
\* bytes-per-block 0 and bits-per-pixel nonzero, and an unknown format has 0
\* for both.
C26_FormatTables ==
    (call.fn = "dds_format" /\ call.done) =>
        IF call.arg[1] = DXGI_FORMAT_UNKNOWN \/ call.arg[1] > DXGI_FORMAT_B4G4R4A4_UNORM
        THEN call.out.bits_per_pixel = 0 /\ call.out.bytes_per_block = 0
        ELSE IF call.out.block_compressed
        THEN call.out.bits_per_pixel = 0 /\ call.out.bytes_per_block # 0
        ELSE call.out.bytes_per_block = 0 /\ call.out.bits_per_pixel # 0

\* Whether n is a power of two.
RECURSIVE IsPow2(_)
IsPow2(n) == n = 1 \/ (n > 1 /\ n % 2 = 0 /\ IsPow2(n \div 2))

\* C27: pow2_ge(v, 1) is total: for every value v of the machine word it
\* returns, and what it returns is the smallest power of two that is no less
\* than max(v, 1).
C27_Pow2Total ==
    (call.fn = "pow2_ge" /\ call.done) =>
        LET v == max2(call.arg[1], 1)
        IN  /\ call.out.returns
            /\ IsPow2(call.out.x)
            /\ call.out.x >= v
            /\ \A n \in v..(call.out.x - 1) : ~IsPow2(n)

\* C28: a manifest field whose value is null yields the same Job as a
\* manifest that omits the field, for each of Width, Height, MaxMipLevels,
\* ArraySize, Format, AlphaMode, Mipmaps, Cubemap, Volume and ForcePow2.
C28_NullAsOmitted ==
    (call.fn = "process_json_node" /\ call.done) => call.out.null = call.out.omitted

(***************************************************************************)
(* Properties of the surfaces against the headers and the pixel buffers.   *)
(***************************************************************************)
\* C29: for every job whose scheduler succeeded, the number of mip-level
\* surfaces written for each face or array element equals the MipMapCount
\* written to the base header, whatever the mipmaps flag and max_mip_levels.
C29_LevelsWritten ==
    (status = "EXIT_SUCCESS" /\ res) =>
        \A i \in 1..Len(Surfaces) :
            Surfaces[i].level = 0 => Cardinality(ChainOf(i)) = dds.Levels

\* The bytes of the pixel buffer a surface of the first source is read from:
\* the decoded image for a level 0 that is not resampled, else the output of
\* resize_image for the size of the level.
BufferBytes(o) ==
    IF o.level = 0 /\ params.Width = params.BaseWidth /\ params.Height = params.BaseHeight
    THEN ImageBytes(source0)
    ELSE ImageBytes(resize_image(source0, o.lw, o.lh, TRUE).image)

\* C30: no surface is handed more bytes (pitch(job.format, level width) x
\* level height) than the pixel buffer it is read from holds (width x height
\* x channels x bytes per channel); stated for the surfaces of the first
\* source, whose decoded image the state keeps in source0.
C30_WritesWithinBuffer ==
    source0.Pixels =>
        \A i \in 1..Len(Surfaces) :
            Surfaces[i].src = 0 => Surfaces[i].nb <= BufferBytes(Surfaces[i])

====
